---- MODULE Spec2Model ----
(***************************************************************************)
(* Model of dashboard/dashboard.py: the Olist e-commerce dashboard.        *)
(*                                                                         *)
(* A data frame is a sequence of rows (records).  A timestamp is a number  *)
(* of clock ticks since the first instant of day 0; a calendar date is a   *)
(* day number.  A price is a whole number of centavos.  NaN stands for a   *)
(* missing value of a label column.                                        *)
(***************************************************************************)
EXTENDS Integers, Sequences, FiniteSets, TLC

\* ------------------------------------------------------------------ bounds
MaxRows == 3        \* rows of a frame
MaxDailyRows == 2   \* rows of a frame given to create_daily_orders_df alone
LastDay == 2        \* calendar days are 0..LastDay
TicksPerDay == 2    \* clock resolution: tick 0 of a day is 00:00:00
MaxPrice == 2       \* prices are 1..MaxPrice

\* ------------------------------------------------------------- value sets
NaN == "NaN"
OrderIds == {"A", "B"}
Categories == {"books", "toys"}
Cities == {"rio", "sao paulo"}
Days == 0..LastDay
Timestamps == 0..((LastDay + 1) * TicksPerDay - 1)
Prices == 1..MaxPrice

\* Python's order on the label strings of the model (ascending).
LabelOrder == <<"books", "rio", "sao paulo", "toys">>
Rank(k) == CHOOSE i \in 1..Len(LabelOrder) : LabelOrder[i] = k

Row(o, t, p, c, s) ==
    [order_id |-> o, order_purchase_timestamp |-> t, price |-> p,
     product_category_name_english |-> c, seller_city |-> s]

\* Row domains the specifications draw their input files from.
RowsTime == {Row(o, t, 1, "toys", "sao paulo") : o \in OrderIds, t \in Timestamps}
RowsDaily == {Row(x[1], x[2], x[3], "toys", "sao paulo") :
                 x \in OrderIds \X Timestamps \X Prices}
RowsGroup == {Row("A", 0, x[1], x[2], x[3]) :
                 x \in Prices \X (Categories \cup {NaN}) \X Cities}

Frames(rows, n) == UNION {[1..k -> rows] : k \in 0..n}

\* ---------------------------------------------------------------- helpers
RECURSIVE SumSeq(_)
SumSeq(s) == IF s = <<>> THEN 0 ELSE Head(s) + SumSeq(Tail(s))

Column(df, col) == [i \in DOMAIN df |-> df[i][col]]

Min(S) == CHOOSE x \in S : \A y \in S : x <= y
Max(S) == CHOOSE x \in S : \A y \in S : x >= y

PermsOf(df) ==
    {[i \in DOMAIN df |-> df[p[i]]] : p \in Permutations(DOMAIN df)}

\* pd.to_datetime(date): the first instant (00:00:00) of the date.
to_datetime(d) == d * TicksPerDay

\* Timestamp.date(), and the day bin of resample('D').
date(t) == t \div TicksPerDay

\* Mutant of sort_values: the ascending flag is ignored.
sort_values_ascending_only(df, by, ascending) ==
    {p \in PermsOf(df) : \A i, j \in DOMAIN p : i < j => p[i][by] <= p[j][by]}

\* DataFrame.sort_values(by, ascending) with the default kind='quicksort',
\* which is not stable: every ordering of equal values is a possible result.
sort_values(df, by, ascending) ==
    {p \in PermsOf(df) :
        \A i, j \in DOMAIN p :
            i < j => IF ascending THEN p[i][by] <= p[j][by]
                                  ELSE p[i][by] >= p[j][by]}

\* ------------------------------------------------------- dashboard.py core
\* load_and_preprocess_data: the file's rows sorted by purchase timestamp.
load_and_preprocess_data(file) == sort_values(file, "order_purchase_timestamp", TRUE)

\* Mutant of filter_data: the two bounds joined by | for &.
filter_data_either_bound(df, start, end) ==
    SelectSeq(df, LAMBDA r :
        \/ r.order_purchase_timestamp >= to_datetime(start)
        \/ r.order_purchase_timestamp <= to_datetime(end))

\* filter_data: the rows whose timestamp lies between the two dates, each
\* converted by pd.to_datetime.
filter_data(df, start, end) ==
    SelectSeq(df, LAMBDA r :
        /\ r.order_purchase_timestamp >= to_datetime(start)
        /\ r.order_purchase_timestamp <= to_datetime(end))

\* Mutant of DayRows: only the rows stamped at the bin's first instant.
DayRows_at_midnight(df, d) ==
    SelectSeq(df, LAMBDA r : r.order_purchase_timestamp = to_datetime(d))

\* The rows of df in day bin d.
DayRows(df, d) == SelectSeq(df, LAMBDA r : date(r.order_purchase_timestamp) = d)

\* The first row of each order among rows (drop_duplicates('order_id')).
FirstPerOrder(rows) ==
    SelectSeq([i \in DOMAIN rows |-> [row |-> rows[i], first |->
                   \A j \in 1..(i - 1) : rows[j].order_id # rows[i].order_id]],
              LAMBDA x : x.first)

\* Mutant of DailyRecord: order_count counts rows ('count' for 'nunique').
DailyRecord_counting_rows(df, d) ==
    LET rows == DayRows(df, d)
    IN [order_purchase_timestamp |-> to_datetime(d),
        order_count |-> Len(rows),
        revenue |-> SumSeq(Column(rows, "price"))]

\* Mutant of DailyRecord: revenue takes one row per order.
DailyRecord_revenue_per_order(df, d) ==
    LET rows == DayRows(df, d)
        firsts == FirstPerOrder(rows)
    IN [order_purchase_timestamp |-> to_datetime(d),
        order_count |-> Cardinality({rows[j].order_id : j \in DOMAIN rows}),
        revenue |-> SumSeq([i \in DOMAIN firsts |-> firsts[i].row.price])]

\* agg(order_count=('order_id', 'nunique'), revenue=('price', 'sum')) of day
\* bin d, with the bin's first instant as its label; nunique and sum of an
\* empty bin are 0.
DailyRecord(df, d) ==
    LET rows == DayRows(df, d)
    IN [order_purchase_timestamp |-> to_datetime(d),
        order_count |-> Cardinality({rows[j].order_id : j \in DOMAIN rows}),
        revenue |-> SumSeq(Column(rows, "price"))]

RECURSIVE Ascending(_)
Ascending(S) ==
    IF S = {} THEN <<>> ELSE <<Min(S)>> \o Ascending(S \ {Min(S)})

RECURSIVE InOrderOfAppearance(_)
InOrderOfAppearance(s) ==
    IF s = <<>> THEN <<>>
    ELSE <<Head(s)>> \o InOrderOfAppearance(SelectSeq(Tail(s), LAMBDA x : x # Head(s)))

\* Mutant of create_daily_orders_df: groupby on the day, only the days that
\* have rows.
create_daily_orders_df_without_empty_days(df) ==
    LET days == Ascending({date(df[i].order_purchase_timestamp) : i \in DOMAIN df})
    IN [i \in DOMAIN days |-> DailyRecord(df, days[i])]

\* Mutant of create_daily_orders_df: groupby(sort=False) on the day, the days
\* in the order of their first row.
create_daily_orders_df_in_row_order(df) ==
    LET days == InOrderOfAppearance(
                    [i \in DOMAIN df |-> date(df[i].order_purchase_timestamp)])
    IN [i \in DOMAIN days |-> DailyRecord(df, days[i])]

\* create_daily_orders_df: resample('D') makes one bin per calendar day from
\* the first to the last day of the frame.
create_daily_orders_df(df) ==
    IF df = <<>> THEN <<>>
    ELSE LET days == {date(df[i].order_purchase_timestamp) : i \in DOMAIN df}
             lo == Min(days)
             hi == Max(days)
         IN [i \in 1..(hi - lo + 1) |-> DailyRecord(df, lo + i - 1)]

\* A set of labels as a sequence in ascending order.
RECURSIVE SortedKeys(_)
SortedKeys(S) ==
    IF S = {} THEN <<>>
    ELSE LET m == CHOOSE x \in S : \A y \in S : Rank(x) <= Rank(y)
         IN <<m>> \o SortedKeys(S \ {m})

\* Mutant of groupby: dropna=False keeps the missing key as a group, last.
groupby_keeping_nan(df, col) ==
    LET keys == {df[i][col] : i \in DOMAIN df}
    IN SortedKeys(keys \ {NaN}) \o (IF NaN \in keys THEN <<NaN>> ELSE <<>>)

\* The group keys of groupby(col): dropna=True drops NaN, sort=True orders
\* the keys ascending.
groupby(df, col) == SortedKeys({df[i][col] : i \in DOMAIN df} \ {NaN})

\* groupby(col)["order_id"].count().rename(order_count)
groupby_count(df, col) ==
    LET keys == groupby(df, col)
    IN [i \in DOMAIN keys |->
           (col :> keys[i]) @@
           ("order_count" :> Len(SelectSeq(df, LAMBDA r : r[col] = keys[i])))]

\* groupby(col)["price"].sum().rename(revenue)
groupby_sum(df, col) ==
    LET keys == groupby(df, col)
    IN [i \in DOMAIN keys |->
           (col :> keys[i]) @@
           ("revenue" :> SumSeq(Column(SelectSeq(df, LAMBDA r : r[col] = keys[i]), "price")))]

\* create_count_order_items_df: the possible results.
create_count_order_items_df(df, group_by_column) ==
    sort_values(groupby_count(df, group_by_column), "order_count", FALSE)

\* create_sum_order_items_df: the possible results.
create_sum_order_items_df(df, group_by_column) ==
    sort_values(groupby_sum(df, group_by_column), "revenue", FALSE)

\* display_metrics: the two metric values.
total_orders_of(daily) == SumSeq(Column(daily, "order_count"))
format_currency(amount, currency) == [currency |-> currency, centavos |-> amount]
total_revenue_of(daily) == format_currency(SumSeq(Column(daily, "revenue")), "BRL")

\* create_sidebar: the bounds of the date widget.
min_date(df) == date(Min({df[i].order_purchase_timestamp : i \in DOMAIN df}))
max_date(df) == date(Max({df[i].order_purchase_timestamp : i \in DOMAIN df}))

\* ------------------------------------------------------------------ state
VARIABLES
    pc,                  \* position in main(), or the function last called
    file,                \* rows of dashboard/all_data.csv, in file order
    all_df,              \* the loaded frame
    start_date, end_date,
    main_df,             \* the filtered frame
    daily_orders_df,
    count_order_items_df,
    sum_order_items_df,
    count_order_items_by_seller_city_df,
    sum_order_items_by_seller_city_df,
    total_orders, total_revenue

frames == <<daily_orders_df, count_order_items_df, sum_order_items_df,
            count_order_items_by_seller_city_df, sum_order_items_by_seller_city_df>>
metrics == <<total_orders, total_revenue>>
vars == <<pc, file, all_df, start_date, end_date, main_df, frames, metrics>>

NoDate == 0 - 1
NoMetric == [currency |-> "BRL", centavos |-> 0]

Blank ==
    /\ all_df = <<>>
    /\ start_date = NoDate /\ end_date = NoDate
    /\ main_df = <<>>
    /\ daily_orders_df = <<>>
    /\ count_order_items_df = <<>>
    /\ sum_order_items_df = <<>>
    /\ count_order_items_by_seller_city_df = <<>>
    /\ sum_order_items_by_seller_city_df = <<>>
    /\ total_orders = 0 /\ total_revenue = NoMetric

\* ------------------------------------------------- main(): one script run
Init ==
    /\ pc = "start"
    /\ file \in Frames(RowsTime, MaxRows) \ {<<>>}
    /\ Blank

Load ==
    /\ pc = "start"
    /\ all_df' \in load_and_preprocess_data(file)
    /\ pc' = "loaded"
    /\ UNCHANGED <<file, start_date, end_date, main_df, frames, metrics>>

\* create_sidebar: the widget returns a range inside [min_date, max_date];
\* its default is the whole range.
Sidebar ==
    /\ pc = "loaded"
    /\ \E s, e \in Days :
          /\ min_date(all_df) <= s /\ s <= e /\ e <= max_date(all_df)
          /\ start_date' = s /\ end_date' = e
    /\ pc' = "sidebar"
    /\ UNCHANGED <<file, all_df, main_df, frames, metrics>>

\* While the user has picked only the first date of a range the widget returns
\* a 1-tuple, and unpacking it into two names raises ValueError.
SidebarPartial ==
    /\ pc = "loaded"
    /\ pc' = "ValueError"
    /\ UNCHANGED <<file, all_df, start_date, end_date, main_df, frames, metrics>>

Filter ==
    /\ pc = "sidebar"
    /\ main_df' = filter_data(all_df, start_date, end_date)
    /\ pc' = "filtered"
    /\ UNCHANGED <<file, all_df, start_date, end_date, frames, metrics>>

DailyOrders ==
    /\ pc = "filtered"
    /\ daily_orders_df' = create_daily_orders_df(main_df)
    /\ pc' = "daily"
    /\ UNCHANGED <<file, all_df, start_date, end_date, main_df, metrics,
                   count_order_items_df, sum_order_items_df,
                   count_order_items_by_seller_city_df,
                   sum_order_items_by_seller_city_df>>

CountByCategory ==
    /\ pc = "daily"
    /\ count_order_items_df' \in
          create_count_order_items_df(main_df, "product_category_name_english")
    /\ pc' = "count_category"
    /\ UNCHANGED <<file, all_df, start_date, end_date, main_df, metrics,
                   daily_orders_df, sum_order_items_df,
                   count_order_items_by_seller_city_df,
                   sum_order_items_by_seller_city_df>>

SumByCategory ==
    /\ pc = "count_category"
    /\ sum_order_items_df' \in
          create_sum_order_items_df(main_df, "product_category_name_english")
    /\ pc' = "sum_category"
    /\ UNCHANGED <<file, all_df, start_date, end_date, main_df, metrics,
                   daily_orders_df, count_order_items_df,
                   count_order_items_by_seller_city_df,
                   sum_order_items_by_seller_city_df>>

CountByCity ==
    /\ pc = "sum_category"
    /\ count_order_items_by_seller_city_df' \in
          create_count_order_items_df(main_df, "seller_city")
    /\ pc' = "count_city"
    /\ UNCHANGED <<file, all_df, start_date, end_date, main_df, metrics,
                   daily_orders_df, count_order_items_df, sum_order_items_df,
                   sum_order_items_by_seller_city_df>>

SumByCity ==
    /\ pc = "count_city"
    /\ sum_order_items_by_seller_city_df' \in
          create_sum_order_items_df(main_df, "seller_city")
    /\ pc' = "sum_city"
    /\ UNCHANGED <<file, all_df, start_date, end_date, main_df, metrics,
                   daily_orders_df, count_order_items_df, sum_order_items_df,
                   count_order_items_by_seller_city_df>>

DisplayMetrics ==
    /\ pc = "sum_city"
    /\ total_orders' = total_orders_of(daily_orders_df)
    /\ total_revenue' = total_revenue_of(daily_orders_df)
    /\ pc' = "rendered"
    /\ UNCHANGED <<file, all_df, start_date, end_date, main_df, frames>>

\* Streamlit runs the script again from the top on every interaction.
Rerun ==
    /\ pc \in {"rendered", "ValueError"}
    /\ pc' = "start"
    /\ all_df' = <<>>
    /\ start_date' = NoDate /\ end_date' = NoDate
    /\ main_df' = <<>>
    /\ daily_orders_df' = <<>>
    /\ count_order_items_df' = <<>>
    /\ sum_order_items_df' = <<>>
    /\ count_order_items_by_seller_city_df' = <<>>
    /\ sum_order_items_by_seller_city_df' = <<>>
    /\ total_orders' = 0 /\ total_revenue' = NoMetric
    /\ UNCHANGED file

Next ==
    \/ Load
    \/ Sidebar
    \/ SidebarPartial
    \/ Filter
    \/ DailyOrders
    \/ CountByCategory
    \/ SumByCategory
    \/ CountByCity
    \/ SumByCity
    \/ DisplayMetrics
    \/ Rerun

Spec == Init /\ [][Next]_vars

\* --------------------------------------- the functions called on their own
\* Each of these specifications draws a frame (all_df, with file keeping a
\* copy of it as drawn) and calls one function of dashboard.py on it.  The
\* frames drawn for filter_data and create_daily_orders_df are in ascending
\* order of purchase timestamp, as load_and_preprocess_data leaves them;
\* create_daily_orders_df is then also called on every permutation of them.

IsSorted(df) ==
    \A i, j \in DOMAIN df :
        i < j => df[i].order_purchase_timestamp <= df[j].order_purchase_timestamp

InitCall(inputs) ==
    /\ pc = "call"
    /\ file \in inputs
    /\ all_df = file
    /\ start_date = NoDate /\ end_date = NoDate
    /\ main_df = <<>>
    /\ daily_orders_df = <<>>
    /\ count_order_items_df = <<>>
    /\ sum_order_items_df = <<>>
    /\ count_order_items_by_seller_city_df = <<>>
    /\ sum_order_items_by_seller_city_df = <<>>
    /\ total_orders = 0 /\ total_revenue = NoMetric

\* filter_data(all_df, s, e) for any two dates, in either order.
CallFilterData ==
    /\ pc = "call"
    /\ \E s, e \in Days :
          /\ start_date' = s /\ end_date' = e
          /\ main_df' = filter_data(all_df, s, e)
    /\ pc' = "filter_data"
    /\ UNCHANGED <<file, all_df, frames, metrics>>

InitFilter == InitCall({d \in Frames(RowsTime, MaxRows) : IsSorted(d)})
NextFilter == CallFilterData
SpecFilter == InitFilter /\ [][NextFilter]_vars

\* create_daily_orders_df(all_df)
CallDailyOrders ==
    /\ pc = "call"
    /\ daily_orders_df' = create_daily_orders_df(all_df)
    /\ pc' = "daily"
    /\ UNCHANGED <<file, all_df, start_date, end_date, main_df, metrics,
                   count_order_items_df, sum_order_items_df,
                   count_order_items_by_seller_city_df,
                   sum_order_items_by_seller_city_df>>

\* create_daily_orders_df on the same rows in another order.
CallDailyOrdersPermuted ==
    /\ pc = "daily"
    /\ all_df' \in PermsOf(all_df)
    /\ daily_orders_df' = create_daily_orders_df(all_df')
    /\ pc' = "daily_permuted"
    /\ UNCHANGED <<file, start_date, end_date, main_df, metrics,
                   count_order_items_df, sum_order_items_df,
                   count_order_items_by_seller_city_df,
                   sum_order_items_by_seller_city_df>>

\* display_metrics(daily_orders_df)
CallDisplayMetrics ==
    /\ pc = "daily"
    /\ total_orders' = total_orders_of(daily_orders_df)
    /\ total_revenue' = total_revenue_of(daily_orders_df)
    /\ pc' = "metrics"
    /\ UNCHANGED <<file, all_df, start_date, end_date, main_df, frames>>

InitDaily == InitCall({d \in Frames(RowsDaily, MaxDailyRows) : IsSorted(d)})
NextDaily ==
    \/ CallDailyOrders
    \/ CallDailyOrdersPermuted
    \/ CallDisplayMetrics
SpecDaily == InitDaily /\ [][NextDaily]_vars

\* create_count_order_items_df(all_df, column), as main calls it
CallCountByCategory ==
    /\ pc = "call"
    /\ count_order_items_df' \in
          create_count_order_items_df(all_df, "product_category_name_english")
    /\ pc' = "count_category"
    /\ UNCHANGED <<file, all_df, start_date, end_date, main_df, metrics,
                   daily_orders_df, sum_order_items_df,
                   count_order_items_by_seller_city_df,
                   sum_order_items_by_seller_city_df>>

CallCountByCity ==
    /\ pc = "call"
    /\ count_order_items_by_seller_city_df' \in
          create_count_order_items_df(all_df, "seller_city")
    /\ pc' = "count_city"
    /\ UNCHANGED <<file, all_df, start_date, end_date, main_df, metrics,
                   daily_orders_df, count_order_items_df, sum_order_items_df,
                   sum_order_items_by_seller_city_df>>

\* create_sum_order_items_df(all_df, column), as main calls it
CallSumByCategory ==
    /\ pc = "call"
    /\ sum_order_items_df' \in
          create_sum_order_items_df(all_df, "product_category_name_english")
    /\ pc' = "sum_category"
    /\ UNCHANGED <<file, all_df, start_date, end_date, main_df, metrics,
                   daily_orders_df, count_order_items_df,
                   count_order_items_by_seller_city_df,
                   sum_order_items_by_seller_city_df>>

CallSumByCity ==
    /\ pc = "call"
    /\ sum_order_items_by_seller_city_df' \in
          create_sum_order_items_df(all_df, "seller_city")
    /\ pc' = "sum_city"
    /\ UNCHANGED <<file, all_df, start_date, end_date, main_df, metrics,
                   daily_orders_df, count_order_items_df, sum_order_items_df,
                   count_order_items_by_seller_city_df>>

InitGroup == InitCall(Frames(RowsGroup, MaxRows))
NextGroup ==
    \/ CallCountByCategory
    \/ CallCountByCity
    \/ CallSumByCategory
    \/ CallSumByCity
SpecGroup == InitGroup /\ [][NextGroup]_vars

\* ------------------------------------------------------------- properties
TS == "order_purchase_timestamp"
RowDays(df) == {date(df[i][TS]) : i \in DOMAIN df}
RowsOn(df, d) == {i \in DOMAIN df : date(df[i][TS]) = d}
OrdersOf(df, I) == {df[i].order_id : i \in I}

RECURSIVE SumOver(_, _, _)
SumOver(df, col, I) ==
    IF I = {} THEN 0
    ELSE LET i == CHOOSE x \in I : TRUE
         IN df[i][col] + SumOver(df, col, I \ {i})

Total(df, col) == SumOver(df, col, DOMAIN df)

\* The last instant of a calendar date.
EndOfDay(d) == to_datetime(d + 1) - 1

DailyDone == pc \in {"daily", "daily_permuted", "metrics"}

\* C1 (as claimed): for dates s <= e filter_data returns exactly the rows
\* purchased between s 00:00:00 and the last instant of day e, in order.
C1_FilterKeepsWholeEndDay ==
    (pc = "filter_data" /\ start_date <= end_date) =>
        main_df = SelectSeq(all_df, LAMBDA r :
                      r[TS] >= to_datetime(start_date) /\ r[TS] <= EndOfDay(end_date))

\* C10 (as claimed): with the sidebar's default range, from the date of the
\* earliest purchase to the date of the latest, every loaded row passes
\* filter_data.
C10_DefaultRangeKeepsAllRows ==
    (pc = "filtered" /\ start_date = min_date(all_df) /\ end_date = max_date(all_df)) =>
        main_df = all_df

\* C7: with start_date strictly after end_date filter_data returns an empty
\* frame, and the frame it was given is unchanged.
C7_InvertedRangeIsEmpty ==
    (pc = "filter_data" /\ start_date > end_date) =>
        (main_df = <<>> /\ all_df = file)

\* C7 witness: an inverted range over a frame that has a row between the
\* two bounds.
C7_Witness ==
    /\ pc = "filter_data" /\ start_date > end_date
    /\ main_df = <<>> /\ Len(all_df) >= 2
    /\ \E i \in DOMAIN all_df :
          /\ all_df[i][TS] > to_datetime(end_date)
          /\ all_df[i][TS] < to_datetime(start_date)

NoOrderSpansDays(df) ==
    \A i, j \in DOMAIN df :
        df[i].order_id = df[j].order_id => date(df[i][TS]) = date(df[j][TS])

\* C4 (as claimed): the sum of order_count over the daily frame is at most
\* the number of distinct order_id values, with equality when no order has
\* rows on more than one day.
C4_SumAtMostDistinctOrders ==
    DailyDone =>
        /\ Total(daily_orders_df, "order_count")
              <= Cardinality(OrdersOf(all_df, DOMAIN all_df))
        /\ NoOrderSpansDays(all_df) =>
              Total(daily_orders_df, "order_count")
                 = Cardinality(OrdersOf(all_df, DOMAIN all_df))

\* C4 (amended): the sum of order_count over the daily frame is at least the
\* number of distinct order_id values, with equality exactly when no order
\* has rows on more than one day; display_metrics shows that sum.
C4_SumAtLeastDistinctOrders ==
    /\ DailyDone =>
          /\ Total(daily_orders_df, "order_count")
                >= Cardinality(OrdersOf(all_df, DOMAIN all_df))
          /\ NoOrderSpansDays(all_df) <=>
                Total(daily_orders_df, "order_count")
                   = Cardinality(OrdersOf(all_df, DOMAIN all_df))
    /\ pc = "metrics" => total_orders = Total(daily_orders_df, "order_count")

\* C4 witness: one order with rows on two days, counted on each of them.
C4_Witness ==
    /\ pc = "metrics"
    /\ ~NoOrderSpansDays(all_df)
    /\ Cardinality(OrdersOf(all_df, DOMAIN all_df)) = 1
    /\ total_orders = 2

\* C5: every record of the daily frame has the number of distinct order_id
\* values of its day's rows as order_count and the sum of price over all of
\* those rows as revenue, and the records are in strictly ascending order of
\* day.
C5_DailyRecordValues ==
    DailyDone =>
        /\ \A k \in DOMAIN daily_orders_df :
              LET I == RowsOn(all_df, date(daily_orders_df[k][TS]))
              IN /\ daily_orders_df[k].order_count = Cardinality(OrdersOf(all_df, I))
                 /\ daily_orders_df[k].revenue = SumOver(all_df, "price", I)
        /\ \A k, l \in DOMAIN daily_orders_df :
              k < l => date(daily_orders_df[k][TS]) < date(daily_orders_df[l][TS])

\* C5 witness: one order with two item rows at different times of one day:
\* counted once, both prices summed.
C5_Witness ==
    /\ pc = "daily"
    /\ Len(all_df) = 2
    /\ all_df[1].order_id = all_df[2].order_id
    /\ all_df[1][TS] # all_df[2][TS]
    /\ Len(daily_orders_df) = 1
    /\ daily_orders_df[1].order_count = 1
    /\ daily_orders_df[1].revenue = all_df[1].price + all_df[2].price

\* C8: the sum of revenue over the daily frame equals the sum of price over
\* all input rows, and the Total Revenue metric is that amount.
C8_RevenueConserved ==
    /\ DailyDone => Total(daily_orders_df, "revenue") = Total(all_df, "price")
    /\ pc = "metrics" =>
          total_revenue = format_currency(Total(all_df, "price"), "BRL")

\* C8 witness: the metric after a frame of one order's two rows on two days.
C8_Witness ==
    /\ pc = "metrics"
    /\ Len(all_df) = 2
    /\ all_df[1].order_id = all_df[2].order_id
    /\ Len(daily_orders_df) >= 2
    /\ total_revenue.centavos = all_df[1].price + all_df[2].price

\* C9: calling create_daily_orders_df on a permutation of the rows yields the
\* same sequence of records.
C9_RowOrderInsensitive ==
    [][pc' = "daily_permuted" => daily_orders_df' = daily_orders_df]_vars

\* C9 witness: the rows were given in another order than at first, with the
\* later day's row first.
C9_Witness ==
    /\ pc = "daily_permuted"
    /\ all_df # file
    /\ Len(all_df) = 2
    /\ all_df[1][TS] > all_df[2][TS]
    /\ Len(daily_orders_df) >= 2

CAT == "product_category_name_english"
CITY == "seller_city"
GroupDone == pc \in {"count_category", "count_city", "sum_category", "sum_city"}

\* The frame the last call returned, its key column and its value column.
GroupResult ==
    CASE pc = "count_category" ->
            [out |-> count_order_items_df, col |-> CAT, val |-> "order_count"]
      [] pc = "count_city" ->
            [out |-> count_order_items_by_seller_city_df, col |-> CITY, val |-> "order_count"]
      [] pc = "sum_category" ->
            [out |-> sum_order_items_df, col |-> CAT, val |-> "revenue"]
      [] pc = "sum_city" ->
            [out |-> sum_order_items_by_seller_city_df, col |-> CITY, val |-> "revenue"]

KeysIn(df, col) == {df[i][col] : i \in DOMAIN df}
FirstRow(df, col, k) == Min({i \in DOMAIN df : df[i][col] = k})

Descending(out, val) ==
    \A i, j \in DOMAIN out : i < j => out[i][val] >= out[j][val]

\* C6 (as claimed): the grouped frames are in descending order of the
\* aggregated value, and groups of equal value are in the order in which
\* their keys first occur in the input.
C6_DescendingTiesByEncounter ==
    GroupDone =>
        LET r == GroupResult
        IN /\ Descending(r.out, r.val)
           /\ \A i, j \in DOMAIN r.out :
                 (i < j /\ r.out[i][r.val] = r.out[j][r.val]) =>
                     FirstRow(all_df, r.col, r.out[i][r.col])
                        < FirstRow(all_df, r.col, r.out[j][r.col])

\* C6 (amended): the grouped frames are in descending order of the aggregated
\* value; the order of groups of equal value is not fixed.
C6_Descending ==
    GroupDone => Descending(GroupResult.out, GroupResult.val)

\* C6 witness: the group with the larger sum has the greater key and occurs
\* later in the input, and is first in the result.
C6_Witness ==
    /\ pc = "sum_category"
    /\ Len(sum_order_items_df) = 2
    /\ sum_order_items_df[1].revenue > sum_order_items_df[2].revenue
    /\ Rank(sum_order_items_df[1][CAT]) > Rank(sum_order_items_df[2][CAT])
    /\ FirstRow(all_df, CAT, sum_order_items_df[1][CAT])
          > FirstRow(all_df, CAT, sum_order_items_df[2][CAT])

====
